---- MODULE Spec2Model ----
(***************************************************************************)
(* Model of the shopping-list optimizer of GroceryAgent                    *)
(* (src/code/grocery_agent.py): _optimize_shopping_list and                *)
(* _find_best_combination with its nested calculate_score and              *)
(* generate_combinations, the greedy fallback, and the plan assembly.      *)
(*                                                                         *)
(* Money is an integer number of mills (1/1000 of a dollar) so that the    *)
(* comparisons, the utilisation ratio and round(x, 2) are exact. Quotes    *)
(* carry cent-valued prices, as _simulate_store_prices rounds them.        *)
(* A quote keeps the three fields the optimizer reads: name, store, price. *)
(***************************************************************************)
EXTENDS Integers, Sequences, FiniteSets, TLC

\* ---------------------------------------------------------------- bounds
MaxQuotes == 6
MaxStoreLimit == 2
SearchStepBound == 4
MaxWorkers == 4
MaxFairQuotes == 4
MaxParallelQuotes == 5

\* ------------------------------------------------------------- constants
Dollars(d) == d * 1000

IngredientNames == <<"Pizza dough", "Tomato sauce", "Mozzarella cheese", "Pepperoni",
                     "Olive oil", "Italian seasoning", "Spaghetti">>
StoreNames == <<"Walmart", "Target", "Whole Foods">>
NumStores == Len(StoreNames)
Prices == {Dollars(2), Dollars(3), Dollars(7)}

\* budget = None (no ceiling given) is the empty tuple, a number b is <<b>>.
None == <<>>
Budgets == {None, <<Dollars(0 - 1)>>, <<0>>, <<Dollars(5)>>, <<Dollars(8)>>, <<Dollars(20)>>}

VARIABLES
    all_prices,           \* the quote list handed to _optimize_shopping_list
    max_stores,
    budget,
    pc,                   \* position of the call
    ingredient_names,     \* keys of ingredient_options, in insertion order
    ingredient_options,   \* name -> list of quotes
    current_combination,  \* generate_combinations' accumulator
    option_index,         \* position of the for loop of every active frame
    gen_pc,               \* "call": a frame was entered; "ret": it returned
    all_combinations,     \* list of [combination, score]
    examined,             \* complete combinations visited so far
    selected_items,       \* greedy fallback
    used_stores,
    fb_index,             \* next ingredient of the fallback loop
    best_combination,
    result,               \* the plan returned
    call,                 \* 1 for the first call, 2 for a repeated call
    first_result,         \* the plan the first call returned
    conversation_history, \* self.conversation_history: list of [role, content]
    prefix_len,           \* parallel search: ingredients fixed per sub-tree
    pending,              \* parallel search: sub-trees whose worker still runs
    merged,               \* parallel search: best worker output merged so far
    chat_reply,           \* what the last chat call returned
    food_item,            \* _generate_recipe_ingredients: its argument, as characters
    ingredients,          \* _generate_recipe_ingredients: the list returned (names)
    ingredient,           \* _simulate_store_prices: [name, category]
    store,                \* _simulate_store_prices: store name
    price_range,          \* _simulate_store_prices: pricing tier
    price_info            \* _simulate_store_prices: the quote returned

\* The state the optimizer does not touch.
chat_vars == <<conversation_history, chat_reply>>
parallel_vars == <<prefix_len, pending, merged>>
recipe_vars == <<food_item, ingredients>>
price_vars == <<ingredient, store, price_range, price_info>>
other_vars == <<chat_vars, parallel_vars, recipe_vars, price_vars>>

\* The arguments, the locals and the result of an optimization call.
optimizer_vars == <<all_prices, max_stores, budget, pc, ingredient_names, ingredient_options,
                    current_combination, option_index, gen_pc, all_combinations, examined,
                    selected_items, used_stores, fb_index, best_combination, result,
                    call, first_result>>

vars == <<all_prices, max_stores, budget, pc, ingredient_names, ingredient_options,
          current_combination, option_index, gen_pc, all_combinations, examined,
          selected_items, used_stores, fb_index, best_combination, result,
          call, first_result, other_vars>>

\* The state of the methods that are not running.
ChatIdle == conversation_history = <<>> /\ chat_reply = ""
ParallelIdle == prefix_len = 0 /\ pending = {} /\ merged = <<>>
RecipeIdle == food_item = <<>> /\ ingredients = <<>>
PriceIdle ==
    /\ ingredient = [name |-> "", category |-> ""]
    /\ store = ""
    /\ price_range = ""
    /\ price_info = [name |-> "", category |-> "", store |-> "", price |-> 0]

\* --------------------------------------------------------------- helpers
Min(a, b) == IF a <= b THEN a ELSE b

RECURSIVE SumPrices(_)
SumPrices(items) ==
    IF items = <<>> THEN 0 ELSE items[1].price + SumPrices(Tail(items))

StoreSet(items) == {items[i].store : i \in 1..Len(items)}

\* Python's truthiness of the budget argument: None and 0 are false.
Truthy(b) == b # None /\ b[1] # 0

\* round(x, 2): to the nearest cent, halves to the even cent.
Round2(m) ==
    LET q == m \div 10
        r == m % 10
    IN  IF r < 5 THEN q * 10
        ELSE IF r > 5 THEN (q + 1) * 10
        ELSE IF q % 2 = 0 THEN q * 10 ELSE (q + 1) * 10

\* Keys of a dict filled by "if k not in d: d[k] = []": first appearance order.
RECURSIVE FirstAppearance(_, _)
FirstAppearance(keys, seen) ==
    IF keys = <<>> THEN <<>>
    ELSE IF Head(keys) \in seen THEN FirstAppearance(Tail(keys), seen)
    ELSE <<Head(keys)>> \o FirstAppearance(Tail(keys), seen \cup {Head(keys)})

NameKeys(items) == FirstAppearance([i \in 1..Len(items) |-> items[i].name], {})
\* Every quote's store, repeats kept.
StoreKeys_All(items) == [i \in 1..Len(items) |-> items[i].store]
StoreKeys(items) == FirstAppearance([i \in 1..Len(items) |-> items[i].store], {})

GroupByName(items) ==
    [n \in {items[i].name : i \in 1..Len(items)} |->
        SelectSeq(items, LAMBDA q : q.name = n)]
\* Store groups filled by inserting each quote at the front of its list.
GroupByStore_Prepend(items) ==
    [s \in StoreSet(items) |->
        LET own == SelectSeq(items, LAMBDA q : q.store = s)
        IN  [i \in 1..Len(own) |-> own[Len(own) + 1 - i]]]
GroupByStore(items) ==
    [s \in StoreSet(items) |-> SelectSeq(items, LAMBDA q : q.store = s)]

\* The quote list generate_shopping_list builds: ingredient by ingredient,
\* every store in catalogue order. A request has n ingredients quoted at the
\* first s stores, at most MaxQuotes quotes in all.
QuoteList(n, s, price) ==
    [k \in 1..(n * s) |->
        [name  |-> IngredientNames[((k - 1) \div s) + 1],
         store |-> StoreNames[((k - 1) % s) + 1],
         price |-> price[<<((k - 1) \div s) + 1, ((k - 1) % s) + 1>>]]]

EmptyPlan == [stores_used |-> <<>>, total_cost |-> 0, shopping_list |-> GroupByStore(<<>>)]

Init ==
    /\ \E n \in 0..MaxQuotes, s \in 1..NumStores :
          /\ n * s <= MaxQuotes
          /\ \E price \in [(1..n) \X (1..s) -> Prices] :
                all_prices = QuoteList(n, s, price)
    /\ max_stores \in 0..MaxStoreLimit
    /\ budget \in Budgets
    /\ pc = "start"
    /\ ingredient_names = <<>>
    /\ ingredient_options = GroupByName(<<>>)
    /\ current_combination = <<>>
    /\ option_index = <<>>
    /\ gen_pc = "call"
    /\ all_combinations = <<>>
    /\ examined = 0
    /\ selected_items = <<>>
    /\ used_stores = {}
    /\ fb_index = 1
    /\ best_combination = <<>>
    /\ result = EmptyPlan
    /\ call = 1
    /\ first_result = EmptyPlan
    /\ ChatIdle /\ ParallelIdle /\ RecipeIdle /\ PriceIdle

\* _optimize_shopping_list, lines 585-594: group the quotes by ingredient and
\* call _find_best_combination, which starts generate_combinations([], 0).
GroupByIngredient ==
    /\ pc = "start"
    /\ ingredient_names' = NameKeys(all_prices)
    /\ ingredient_options' = GroupByName(all_prices)
    /\ pc' = "generate"
    /\ UNCHANGED <<other_vars, call, first_result, all_prices, max_stores, budget, current_combination, option_index,
                   gen_pc, all_combinations, examined, selected_items, used_stores,
                   fb_index, best_combination, result>>

\* ------------------------------------------------------- calculate_score
Infinity == Dollars(1000000)

\* The utilisation term with the bonus band open at 0.7.
BudgetUtilization_StrictLowerBand(total_cost) ==
    IF ~Truthy(budget) THEN 0
    ELSE IF total_cost > budget[1] THEN 1000
    ELSE IF 10 * total_cost > 7 * budget[1] /\ 100 * total_cost <= 95 * budget[1] THEN 0 - 80
    ELSE IF 2 * total_cost < budget[1] THEN 40
    ELSE IF 100 * total_cost > 98 * budget[1] THEN 20
    ELSE 0

\* The utilisation term without the penalty for using under half the budget.
BudgetUtilization_NoUnderUse(total_cost) ==
    IF ~Truthy(budget) THEN 0
    ELSE IF total_cost > budget[1] THEN 1000
    ELSE IF 10 * total_cost >= 7 * budget[1] /\ 100 * total_cost <= 95 * budget[1] THEN 0 - 80
    ELSE IF 100 * total_cost > 98 * budget[1] THEN 20
    ELSE 0

\* lines 628-640, in dollars. In the ratio branch 0 <= total_cost <= budget
\* and budget # 0, so the ratio tests are cross-multiplied exactly.
BudgetUtilization(total_cost) ==
    IF ~Truthy(budget) THEN 0
    ELSE IF total_cost > budget[1] THEN 1000
    ELSE IF 10 * total_cost >= 7 * budget[1] /\ 100 * total_cost <= 95 * budget[1] THEN 0 - 80
    ELSE IF 2 * total_cost < budget[1] THEN 40
    ELSE IF 100 * total_cost > 98 * budget[1] THEN 20
    ELSE 0

\* line 625, in dollars.
VarietyBonus(num_stores) == (0 - 30) * Min(num_stores, max_stores)

\* The score without its budget-utilisation term.
calculate_score_NoBudgetTerm(combination, num_stores, total_cost) ==
    IF combination = <<>> THEN Infinity
    ELSE total_cost + Dollars(VarietyBonus(num_stores))

\* lines 616-642.
calculate_score(combination, num_stores, total_cost) ==
    IF combination = <<>> THEN Infinity
    ELSE total_cost + Dollars(VarietyBonus(num_stores)) + Dollars(BudgetUtilization(total_cost))

\* The filter of line 659 without its store-count test.
WithinLimits_NoStoreLimit(total_cost, num_stores) ==
    total_cost <= budget[1]

\* The filter of line 659 without its budget test.
WithinLimits_NoBudgetLimit(total_cost, num_stores) ==
    num_stores <= max_stores

\* line 659, evaluated when budget is a number.
WithinLimits(total_cost, num_stores) ==
    total_cost <= budget[1] /\ num_stores <= max_stores

\* ------------------------------------------------- generate_combinations
Depth == Len(option_index)
OptionsAt(d) == ingredient_options[ingredient_names[d]]

\* The leaf without the test of line 654 for an empty combination.
GenLeaf_NoEmptyGuard ==
    /\ pc = "generate" /\ gen_pc = "call"
    /\ Depth >= Len(ingredient_names)
    /\ examined' = examined + 1
    /\ IF budget = None
         THEN /\ pc' = "raised"
              /\ UNCHANGED <<gen_pc, all_combinations>>
         ELSE LET stores_used == StoreSet(current_combination)
                  total_cost == SumPrices(current_combination)
              IN  /\ gen_pc' = "ret"
                  /\ pc' = pc
                  /\ all_combinations' =
                        IF WithinLimits(total_cost, Cardinality(stores_used))
                        THEN Append(all_combinations,
                                    [combination |-> current_combination,
                                     score |-> calculate_score(current_combination,
                                                               Cardinality(stores_used),
                                                               total_cost)])
                        ELSE all_combinations
    /\ UNCHANGED <<other_vars, call, first_result, all_prices, max_stores, budget, ingredient_names, ingredient_options,
                   current_combination, option_index, selected_items, used_stores,
                   fb_index, best_combination, result>>

\* lines 652-662: a complete combination. Comparing a number with a budget
\* of None raises TypeError out of the whole call.
GenLeaf ==
    /\ pc = "generate" /\ gen_pc = "call"
    /\ Depth >= Len(ingredient_names)
    /\ examined' = examined + 1
    /\ IF current_combination = <<>>
         THEN /\ gen_pc' = "ret"
              /\ UNCHANGED <<pc, all_combinations>>
         ELSE IF budget = None
         THEN /\ pc' = "raised"
              /\ UNCHANGED <<gen_pc, all_combinations>>
         ELSE LET stores_used == StoreSet(current_combination)
                  total_cost == SumPrices(current_combination)
              IN  /\ gen_pc' = "ret"
                  /\ pc' = pc
                  /\ all_combinations' =
                        IF WithinLimits(total_cost, Cardinality(stores_used))
                        THEN Append(all_combinations,
                                    [combination |-> current_combination,
                                     score |-> calculate_score(current_combination,
                                                               Cardinality(stores_used),
                                                               total_cost)])
                        ELSE all_combinations
    /\ UNCHANGED <<other_vars, call, first_result, all_prices, max_stores, budget, ingredient_names, ingredient_options,
                   current_combination, option_index, selected_items, used_stores,
                   fb_index, best_combination, result>>

\* lines 664-670: the frame of ingredient Depth + 1 starts its loop.
GenFirstOption ==
    /\ pc = "generate" /\ gen_pc = "call"
    /\ Depth < Len(ingredient_names)
    /\ LET options == OptionsAt(Depth + 1)
       IN  IF options = <<>>
           THEN /\ gen_pc' = "ret"
                /\ UNCHANGED <<current_combination, option_index>>
           ELSE /\ current_combination' = Append(current_combination, options[1])
                /\ option_index' = Append(option_index, 1)
                /\ gen_pc' = "call"
    /\ UNCHANGED <<other_vars, call, first_result, all_prices, max_stores, budget, pc, ingredient_names, ingredient_options,
                   all_combinations, examined, selected_items, used_stores,
                   fb_index, best_combination, result>>

\* lines 668-671: the recursive call returned; pop, append the next option.
GenNextOption ==
    /\ pc = "generate" /\ gen_pc = "ret"
    /\ Depth > 0
    /\ option_index[Depth] < Len(OptionsAt(Depth))
    /\ current_combination' =
          Append(SubSeq(current_combination, 1, Depth - 1),
                 OptionsAt(Depth)[option_index[Depth] + 1])
    /\ option_index' = [option_index EXCEPT ![Depth] = @ + 1]
    /\ gen_pc' = "call"
    /\ UNCHANGED <<other_vars, call, first_result, all_prices, max_stores, budget, pc, ingredient_names, ingredient_options,
                   all_combinations, examined, selected_items, used_stores,
                   fb_index, best_combination, result>>

\* line 671 after the last option: pop, the frame returns to its caller.
GenReturn ==
    /\ pc = "generate" /\ gen_pc = "ret"
    /\ Depth > 0
    /\ option_index[Depth] >= Len(OptionsAt(Depth))
    /\ current_combination' = SubSeq(current_combination, 1, Depth - 1)
    /\ option_index' = SubSeq(option_index, 1, Depth - 1)
    /\ gen_pc' = "ret"
    /\ UNCHANGED <<other_vars, call, first_result, all_prices, max_stores, budget, pc, ingredient_names, ingredient_options,
                   all_combinations, examined, selected_items, used_stores,
                   fb_index, best_combination, result>>

\* Line 677 without its test: the greedy pass runs after every enumeration.
GenDone_AlwaysFallback ==
    /\ pc = "generate" /\ gen_pc = "ret"
    /\ Depth = 0
    /\ pc' = "fallback"
    /\ UNCHANGED <<other_vars, call, first_result, all_prices, max_stores, budget, ingredient_names, ingredient_options,
                   current_combination, option_index, gen_pc, all_combinations, examined,
                   selected_items, used_stores, fb_index, best_combination, result>>

\* lines 674-677: generate_combinations([], 0) returned.
GenDone ==
    /\ pc = "generate" /\ gen_pc = "ret"
    /\ Depth = 0
    /\ pc' = IF all_combinations = <<>> THEN "fallback" ELSE "sort"
    /\ UNCHANGED <<other_vars, call, first_result, all_prices, max_stores, budget, ingredient_names, ingredient_options,
                   current_combination, option_index, gen_pc, all_combinations, examined,
                   selected_items, used_stores, fb_index, best_combination, result>>

\* -------------------------------------------------------- greedy fallback
\* A sort that puts a quote before the earlier quotes of equal price.
RECURSIVE InsertByPrice_Unstable(_, _)
InsertByPrice_Unstable(x, sorted) ==
    IF sorted = <<>> THEN <<x>>
    ELSE IF Head(sorted).price < x.price
         THEN <<Head(sorted)>> \o InsertByPrice_Unstable(x, Tail(sorted))
         ELSE <<x>> \o sorted

\* list.sort(key=price): stable, ascending.
RECURSIVE InsertByPrice(_, _)
InsertByPrice(x, sorted) ==
    IF sorted = <<>> THEN <<x>>
    ELSE IF Head(sorted).price <= x.price
         THEN <<Head(sorted)>> \o InsertByPrice(x, Tail(sorted))
         ELSE <<x>> \o sorted

RECURSIVE SortByPrice(_)
SortByPrice(items) ==
    IF items = <<>> THEN <<>>
    ELSE InsertByPrice(items[Len(items)], SortByPrice(SubSeq(items, 1, Len(items) - 1)))

\* Index of the first option satisfying a test, 0 when there is none.
FirstAtUsedStore(options, used) ==
    IF \E i \in 1..Len(options) : options[i].store \in used
    THEN CHOOSE i \in 1..Len(options) :
            /\ options[i].store \in used
            /\ \A j \in 1..(i - 1) : options[j].store \notin used
    ELSE 0

\* The scan of lines 702-708 testing the option's price alone.
FirstAffordable_PriceOnly(options, spent) ==
    IF \E i \in 2..Len(options) : options[i].price <= budget[1]
    THEN CHOOSE i \in 2..Len(options) :
            /\ options[i].price <= budget[1]
            /\ \A j \in 2..(i - 1) : options[j].price > budget[1]
    ELSE 0

\* lines 702-708: the scan of options[1:] for one that fits the budget.
FirstAffordable(options, spent) ==
    IF \E i \in 2..Len(options) : spent + options[i].price <= budget[1]
    THEN CHOOSE i \in 2..Len(options) :
            /\ spent + options[i].price <= budget[1]
            /\ \A j \in 2..(i - 1) : spent + options[j].price > budget[1]
    ELSE 0

\* lines 686-694: the first sorted option at a store already used, else the
\* first sorted option.
BestOption(options, used) ==
    LET at_used == FirstAtUsedStore(options, used)
    IN  IF at_used # 0 THEN options[at_used] ELSE options[1]

\* The loop body sorting the caller's quote list as well.
FallbackStep_SortsCallerList ==
    /\ pc = "fallback"
    /\ fb_index <= Len(ingredient_names)
    /\ LET ingredient_name == ingredient_names[fb_index]
           options == SortByPrice(ingredient_options[ingredient_name])
           at_used == FirstAtUsedStore(options, used_stores)
           best_option == BestOption(options, used_stores)
           used_1 == IF at_used # 0 THEN used_stores
                     ELSE used_stores \cup {best_option.store}
           spent == SumPrices(selected_items)
           over == Truthy(budget) /\ spent + best_option.price > budget[1]
           cheaper == IF over THEN FirstAffordable(options, spent) ELSE 0
       IN  /\ ingredient_options' = [ingredient_options EXCEPT ![ingredient_name] = options]
           /\ IF ~over
              THEN /\ selected_items' = Append(selected_items, best_option)
                   /\ used_stores' = used_1
              ELSE IF cheaper # 0
              THEN /\ selected_items' = Append(selected_items, options[cheaper])
                   /\ used_stores' = used_1 \cup {options[cheaper].store}
              ELSE /\ selected_items' = selected_items
                   /\ used_stores' = used_1
    /\ fb_index' = fb_index + 1
    /\ all_prices' = SortByPrice(all_prices)
    /\ UNCHANGED <<other_vars, call, first_result, max_stores, budget, pc, ingredient_names,
                   current_combination, option_index, gen_pc, all_combinations, examined,
                   best_combination, result>>

\* The loop body not moving on to the next ingredient when it skips one.
FallbackStep_SkipStaysPut ==
    /\ pc = "fallback"
    /\ fb_index <= Len(ingredient_names)
    /\ LET ingredient_name == ingredient_names[fb_index]
           options == SortByPrice(ingredient_options[ingredient_name])
           at_used == FirstAtUsedStore(options, used_stores)
           best_option == BestOption(options, used_stores)
           used_1 == IF at_used # 0 THEN used_stores
                     ELSE used_stores \cup {best_option.store}
           spent == SumPrices(selected_items)
           over == Truthy(budget) /\ spent + best_option.price > budget[1]
           cheaper == IF over THEN FirstAffordable(options, spent) ELSE 0
       IN  /\ ingredient_options' = [ingredient_options EXCEPT ![ingredient_name] = options]
           /\ IF ~over
              THEN /\ selected_items' = Append(selected_items, best_option)
                   /\ used_stores' = used_1
              ELSE IF cheaper # 0
              THEN /\ selected_items' = Append(selected_items, options[cheaper])
                   /\ used_stores' = used_1 \cup {options[cheaper].store}
              ELSE /\ selected_items' = selected_items
                   /\ used_stores' = used_1
           /\ fb_index' = IF over /\ cheaper = 0 THEN fb_index ELSE fb_index + 1
    /\ UNCHANGED <<other_vars, call, first_result, all_prices, max_stores, budget, pc, ingredient_names,
                   current_combination, option_index, gen_pc, all_combinations, examined,
                   best_combination, result>>

\* lines 682-712: one iteration of the loop over ingredient_options.items().
FallbackStep ==
    /\ pc = "fallback"
    /\ fb_index <= Len(ingredient_names)
    /\ LET ingredient_name == ingredient_names[fb_index]
           options == SortByPrice(ingredient_options[ingredient_name])
           at_used == FirstAtUsedStore(options, used_stores)
           best_option == BestOption(options, used_stores)
           used_1 == IF at_used # 0 THEN used_stores
                     ELSE used_stores \cup {best_option.store}
           spent == SumPrices(selected_items)
           over == Truthy(budget) /\ spent + best_option.price > budget[1]
           cheaper == IF over THEN FirstAffordable(options, spent) ELSE 0
       IN  /\ ingredient_options' = [ingredient_options EXCEPT ![ingredient_name] = options]
           /\ IF ~over
              THEN /\ selected_items' = Append(selected_items, best_option)
                   /\ used_stores' = used_1
              ELSE IF cheaper # 0
              THEN /\ selected_items' = Append(selected_items, options[cheaper])
                   /\ used_stores' = used_1 \cup {options[cheaper].store}
              ELSE /\ selected_items' = selected_items
                   /\ used_stores' = used_1
    /\ fb_index' = fb_index + 1
    /\ UNCHANGED <<other_vars, call, first_result, all_prices, max_stores, budget, pc, ingredient_names,
                   current_combination, option_index, gen_pc, all_combinations, examined,
                   best_combination, result>>

\* line 714.
FallbackReturn ==
    /\ pc = "fallback"
    /\ fb_index > Len(ingredient_names)
    /\ best_combination' = selected_items
    /\ pc' = "assemble"
    /\ UNCHANGED <<other_vars, call, first_result, all_prices, max_stores, budget, ingredient_names, ingredient_options,
                   current_combination, option_index, gen_pc, all_combinations, examined,
                   selected_items, used_stores, fb_index, result>>

\* --------------------------------------------------------- sort by score
\* A sort that puts an entry before the earlier entries of equal score.
RECURSIVE InsertByScore_Unstable(_, _)
InsertByScore_Unstable(x, sorted) ==
    IF sorted = <<>> THEN <<x>>
    ELSE IF Head(sorted).score < x.score
         THEN <<Head(sorted)>> \o InsertByScore_Unstable(x, Tail(sorted))
         ELSE <<x>> \o sorted

\* list.sort(key=score): stable, ascending.
RECURSIVE InsertByScore(_, _)
InsertByScore(x, sorted) ==
    IF sorted = <<>> THEN <<x>>
    ELSE IF Head(sorted).score <= x.score
         THEN <<Head(sorted)>> \o InsertByScore(x, Tail(sorted))
         ELSE <<x>> \o sorted

\* No sort at all: the list stays in generation order.
SortByScore_Unsorted(entries) == entries

RECURSIVE SortByScore(_)
SortByScore(entries) ==
    IF entries = <<>> THEN <<>>
    ELSE InsertByScore(entries[Len(entries)],
                       SortByScore(SubSeq(entries, 1, Len(entries) - 1)))

\* Line 718 without the sort of line 717: the first combination recorded.
SortAndReturn_NoSort ==
    /\ pc = "sort"
    /\ all_combinations' = all_combinations
    /\ best_combination' = IF all_combinations' # <<>>
                           THEN all_combinations'[1].combination ELSE <<>>
    /\ pc' = "assemble"
    /\ UNCHANGED <<other_vars, call, first_result, all_prices, max_stores, budget, ingredient_names, ingredient_options,
                   current_combination, option_index, gen_pc, examined,
                   selected_items, used_stores, fb_index, result>>

\* lines 716-718.
SortAndReturn ==
    /\ pc = "sort"
    /\ all_combinations' = SortByScore(all_combinations)
    /\ best_combination' = IF all_combinations' # <<>>
                           THEN all_combinations'[1].combination ELSE <<>>
    /\ pc' = "assemble"
    /\ UNCHANGED <<other_vars, call, first_result, all_prices, max_stores, budget, ingredient_names, ingredient_options,
                   current_combination, option_index, gen_pc, examined,
                   selected_items, used_stores, fb_index, result>>

\* ---------------------------------------------------------- plan assembly
\* The total accumulated only when a quote opens a new store group.
PlanTotal_NewStoresOnly(items) ==
    Round2(SumPrices(SelectSeq(items, LAMBDA q :
        q = SelectSeq(items, LAMBDA r : r.store = q.store)[1])))

\* lines 598-605 and 609: the running total of the chosen quotes, rounded.
PlanTotal(items) == Round2(SumPrices(items))

\* lines 596-611.
Assemble ==
    /\ pc = "assemble"
    /\ result' = [stores_used   |-> StoreKeys(best_combination),
                  total_cost    |-> PlanTotal(best_combination),
                  shopping_list |-> GroupByStore(best_combination)]
    /\ pc' = "returned"
    /\ UNCHANGED <<other_vars, call, first_result, all_prices, max_stores, budget, ingredient_names, ingredient_options,
                   current_combination, option_index, gen_pc, all_combinations, examined,
                   selected_items, used_stores, fb_index, best_combination>>

Next ==
    \/ GroupByIngredient
    \/ GenLeaf
    \/ GenFirstOption
    \/ GenNextOption
    \/ GenReturn
    \/ GenDone
    \/ FallbackStep
    \/ FallbackReturn
    \/ SortAndReturn
    \/ Assemble

Spec == Init /\ [][Next]_vars

\* ------------------------------------------------------- a repeated call
\* A second call whose locals are not created anew: selected_items survives.
CallAgain_KeepSelected ==
    /\ pc = "returned" /\ call = 1
    /\ call' = 2
    /\ first_result' = result
    /\ pc' = "start"
    /\ ingredient_names' = <<>>
    /\ ingredient_options' = GroupByName(<<>>)
    /\ current_combination' = <<>>
    /\ option_index' = <<>>
    /\ gen_pc' = "call"
    /\ all_combinations' = <<>>
    /\ examined' = 0
    /\ used_stores' = {}
    /\ fb_index' = 1
    /\ best_combination' = <<>>
    /\ result' = EmptyPlan
    /\ UNCHANGED <<other_vars, all_prices, max_stores, budget, selected_items>>

\* The caller keeps the plan and calls _optimize_shopping_list again with the
\* same list object, max_stores and budget. Every local of the two methods
\* is created anew (lines 586, 597-598, 645, 674, 679-680); the list is as
\* the first call left it.
CallAgain ==
    /\ pc = "returned" /\ call = 1
    /\ call' = 2
    /\ first_result' = result
    /\ pc' = "start"
    /\ ingredient_names' = <<>>
    /\ ingredient_options' = GroupByName(<<>>)
    /\ current_combination' = <<>>
    /\ option_index' = <<>>
    /\ gen_pc' = "call"
    /\ all_combinations' = <<>>
    /\ examined' = 0
    /\ selected_items' = <<>>
    /\ used_stores' = {}
    /\ fb_index' = 1
    /\ best_combination' = <<>>
    /\ result' = EmptyPlan
    /\ UNCHANGED <<other_vars, all_prices, max_stores, budget>>

\* The call runs on one thread and blocks on nothing: while a statement
\* remains, the next one is executed.
\* The requests of at most MaxFairQuotes quotes.
InitFair == Init /\ Len(all_prices) <= MaxFairQuotes

SpecFair == InitFair /\ [][Next]_vars /\ WF_vars(Next)

NextTwice ==
    \/ Next
    \/ CallAgain

SpecTwice == Init /\ [][NextTwice]_vars

\* ============================================================ properties
\* The request as the specification reads it, computed from the arguments
\* alone: the ingredients in first-appearance order, their quotes in the
\* given order, and every complete assignment of one quote per ingredient.
RequestNames == NameKeys(all_prices)
RequestOptions == GroupByName(all_prices)

\* One option index per ingredient: the leaves of the enumeration tree.
RECURSIVE IndexVectorsTo(_)
IndexVectorsTo(d) ==
    IF d = 0 THEN {<<>>}
    ELSE {Append(v, i) : v \in IndexVectorsTo(d - 1),
                         i \in 1..Len(RequestOptions[RequestNames[d]])}

IndexVectors == IndexVectorsTo(Len(RequestNames))

CombinationAt(v) == [d \in 1..Len(RequestNames) |-> RequestOptions[RequestNames[d]][v[d]]]

Combinations == {CombinationAt(v) : v \in IndexVectors}

StoreCount(c) == Cardinality(StoreSet(c))

\* Feasibility of section 4.2: no budget means no ceiling.
IsFeasible(c) ==
    /\ StoreCount(c) <= max_stores
    /\ (budget = None \/ SumPrices(c) <= budget[1])

FeasibleSet == {c \in Combinations : IsFeasible(c)}

ScoreOf(c) == calculate_score(c, StoreCount(c), SumPrices(c))

LexLess(v, w) ==
    \E d \in DOMAIN v : v[d] < w[d] /\ \A e \in 1..(d - 1) : v[e] = w[e]

ValidRequest == max_stores >= 1 /\ (budget = None \/ budget[1] > 0)

Returned == pc = "returned"
Chosen == pc \in {"assemble", "returned"}
ViaFallback == all_combinations = <<>>

RECURSIVE SumOverStores(_, _)
SumOverStores(list, stores) ==
    IF stores = {} THEN 0
    ELSE LET s == CHOOSE x \in stores : TRUE
         IN  SumPrices(list[s]) + SumOverStores(list, stores \ {s})

QuotesOf(list, name) ==
    {<<s, i>> \in (DOMAIN list) \X (1..Len(all_prices)) :
        i <= Len(list[s]) /\ list[s][i].name = name}

\* C1: whenever some combination is feasible (at most max_stores distinct
\* stores and, with a budget, a total within it), the plan returned uses at
\* most max_stores stores and, with a budget, costs at most the budget.
C1_FeasiblePlanWithinLimits ==
    (Returned /\ FeasibleSet # {}) =>
        /\ Len(result.stores_used) <= max_stores
        /\ (budget # None => result.total_cost <= budget[1])

\* Some combinations are feasible and some are not, and a plan came back.
C1_Witness ==
    /\ Returned /\ FeasibleSet # {} /\ FeasibleSet # Combinations
    /\ ValidRequest
    /\ budget # None
    /\ Len(result.stores_used) = max_stores
    /\ Len(ingredient_names) >= 2

\* C2: every ingredient that has price options appears exactly once across
\* the returned shopping_list (the plan carries no marker of a partial
\* fulfilment, so nothing excuses a missing ingredient).
C2_EveryIngredientOnce ==
    (Returned /\ ValidRequest) =>
        \A d \in 1..Len(RequestNames) :
            Cardinality(QuotesOf(result.shopping_list, RequestNames[d])) = 1

\* C3: with a positive budget every plan returned costs at most the budget,
\* and in the greedy fallback the running total of the selected quotes is
\* at most the budget after every ingredient.
C3_NeverOverBudget ==
    (budget # None /\ budget[1] > 0) =>
        /\ (Returned => result.total_cost <= budget[1])
        /\ (pc = "fallback" => SumPrices(selected_items) <= budget[1])

\* The fallback ran on a valid request and its budget guard replaced the
\* provisional choice by an alternative that exactly exhausts the budget.
C3_Witness ==
    /\ Returned /\ ViaFallback /\ ValidRequest
    /\ Len(result.stores_used) = 2
    /\ result.total_cost = budget[1]

\* C4: every plan returned, also one from the greedy fallback, uses at most
\* max_stores distinct stores.
C4_StoreLimit ==
    (Returned /\ ValidRequest) => Len(result.stores_used) <= max_stores

\* C5: total_cost of a returned plan is the sum of the prices of exactly the
\* quotes in shopping_list, over all stores, rounded to cents.
C5_TotalIsSumOfList ==
    Returned =>
        result.total_cost =
            Round2(SumOverStores(result.shopping_list, DOMAIN result.shopping_list))

\* A fallback plan on a valid request that skipped its first ingredient.
C5_Witness ==
    /\ Returned /\ ViaFallback /\ ValidRequest
    /\ best_combination # <<>>
    /\ best_combination[1].name # ingredient_names[1]
    /\ result.total_cost > 0

\* C6: when the feasible set is not empty, the combination chosen is feasible
\* and no feasible combination has a lower score.
C6_MinimumScore ==
    (Chosen /\ FeasibleSet # {}) =>
        /\ best_combination \in FeasibleSet
        /\ \A c \in FeasibleSet : ScoreOf(best_combination) <= ScoreOf(c)

\* The chosen combination beats another feasible one and is not the first
\* one generated.
C6_Witness ==
    /\ Chosen /\ ~ViaFallback
    /\ \E c \in FeasibleSet : ScoreOf(c) > ScoreOf(best_combination)
    /\ ScoreOf(all_combinations[1].combination) < ScoreOf(CombinationAt([d \in 1..Len(RequestNames) |-> 1]))

\* C7: among the feasible combinations of minimum score, the one chosen is
\* the earliest in generation order (ingredients in first-appearance order,
\* quotes in the given order).
C7_EarliestAmongTies ==
    (Chosen /\ ~ViaFallback) =>
        \E vb \in IndexVectors :
            /\ CombinationAt(vb) = best_combination
            /\ \A w \in IndexVectors :
                  (IsFeasible(CombinationAt(w))
                     /\ ScoreOf(CombinationAt(w)) = ScoreOf(best_combination))
                  => ~LexLess(w, vb)

\* Another feasible combination ties with the chosen one.
C7_Witness ==
    /\ Chosen /\ ~ViaFallback
    /\ \E c \in FeasibleSet :
          c # best_combination /\ ScoreOf(c) = ScoreOf(best_combination)

\* C8: with no budget given the optimization does not fail.
C8_NoBudgetDoesNotFail ==
    (budget = None /\ ValidRequest) => pc # "raised"

\* C9: a request with max_stores < 1 or a budget <= 0 is rejected before any
\* combination is enumerated or any greedy step runs, and returns no plan.
C9_InvalidRequestRejected ==
    (~ValidRequest /\ all_prices # <<>>) =>
        /\ examined = 0
        /\ pc \notin {"fallback", "sort", "assemble", "returned"}

\* C10: the number of combinations examined never exceeds the configured
\* step bound.
C10_SearchIsBounded ==
    ValidRequest => examined <= SearchStepBound

\* C11: a second call with the same quote list object, max_stores and budget
\* returns the plan the first call returned: same stores_used order, same
\* total_cost, same shopping_list, on either path.
C11_RepeatedCallSamePlan ==
    (call = 2 /\ Returned) => result = first_result

\* The repeated call went through the fallback, whose sort reordered the
\* option lists of the first call, and returned a plan with two stores.
C11_Witness ==
    /\ call = 2 /\ Returned /\ ViaFallback /\ ValidRequest
    /\ Len(result.stores_used) = 2
    /\ \E d \in 1..Len(RequestNames) :
          ingredient_options[RequestNames[d]] # RequestOptions[RequestNames[d]]

\* Scenario A of section 8: one ingredient quoted at 2.00 by the first store
\* and at 3.00 by the second, max_stores = 1, budget = 5.
ScenarioA ==
    /\ all_prices = <<[name |-> IngredientNames[1], store |-> StoreNames[1], price |-> Dollars(2)],
                      [name |-> IngredientNames[1], store |-> StoreNames[2], price |-> Dollars(3)]>>
    /\ max_stores = 1
    /\ budget = <<Dollars(5)>>

\* C12 as stated: in Scenario A the plan returned buys at the store quoting
\* 2.00: stores_used = [X] and total_cost = 2.00.
C12_ScenarioA_Cheapest ==
    (ScenarioA /\ Returned) =>
        /\ result.stores_used = <<StoreNames[1]>>
        /\ result.total_cost = Dollars(2)

\* C12 as amended: in Scenario A the plan returned buys at the store quoting
\* 3.00, stores_used = [Y] and total_cost = 3.00: 2.00 is under half of the
\* budget and scores 2 - 30 + 40 = 12, 3.00 scores 3 - 30 + 0 = -27.
C12_ScenarioA_Returned ==
    (ScenarioA /\ Returned) =>
        /\ result.stores_used = <<StoreNames[2]>>
        /\ result.total_cost = Dollars(3)
        /\ all_combinations[1].score = Dollars(0 - 27)
        /\ all_combinations[2].score = Dollars(12)

\* Scenario A ran to its end with both quotes feasible and scored.
C12_Witness ==
    /\ ScenarioA /\ Returned
    /\ Len(all_combinations) = 2

\* Scenario B of section 8: two ingredients, max_stores = 2, budget = 20, an
\* assignment at one store totalling 10 and one at two stores totalling 9.
ScenarioB ==
    /\ Len(RequestNames) = 2
    /\ max_stores = 2
    /\ budget = <<Dollars(20)>>
    /\ \E c \in Combinations : StoreCount(c) = 1 /\ SumPrices(c) = Dollars(10)
    /\ \E c \in Combinations : StoreCount(c) = 2 /\ SumPrices(c) = Dollars(9)

\* C13 as stated: in Scenario B the plan returned is the two-store
\* assignment with total 9, not the one-store assignment with total 10.
C13_ScenarioB_TwoStoreNine ==
    (ScenarioB /\ Returned) =>
        /\ Len(result.stores_used) = 2
        /\ result.total_cost = Dollars(9)

\* C13 as amended: in Scenario B the plan returned is never an assignment
\* with total 9 (9/20 < 0.5 draws the +40 penalty: a two-store total of 9
\* scores 9 - 60 + 40 = -11); the chosen combination scores at most -20, the
\* score of the one-store assignment with total 10, and totals at least 10.
C13_ScenarioB_Returned ==
    (ScenarioB /\ Returned) =>
        /\ result.total_cost >= Dollars(10)
        /\ ScoreOf(best_combination) <= Dollars(0 - 20)
        /\ \A c \in Combinations :
              (StoreCount(c) = 2 /\ SumPrices(c) = Dollars(9)) => ScoreOf(c) = Dollars(0 - 11)

\* Scenario B ran to its end and returned the one-store assignment of 10.
C13_Witness ==
    /\ ScenarioB /\ Returned
    /\ Len(result.stores_used) = 1
    /\ result.total_cost = Dollars(10)

\* The score of section 4.2, for a positive budget b or none, with the ratio
\* total/b compared exactly: -80 in [0.7, 0.95], +40 below 0.5, +20 above
\* 0.98, 0 in [0.5, 0.7) and in (0.95, 0.98].
SectionBudgetPenalty(total) ==
    IF budget = None THEN 0
    ELSE LET b == budget[1]
         IN  CASE 10 * total >= 7 * b /\ 100 * total <= 95 * b -> 0 - 80
               [] 2 * total < b                                -> 40
               [] 100 * total > 98 * b                         -> 20
               [] 2 * total >= b /\ 10 * total < 7 * b         -> 0
               [] 100 * total > 95 * b /\ 100 * total <= 98 * b -> 0

SectionScore(c) ==
    SumPrices(c) - Dollars(30) * Min(StoreCount(c), max_stores)
        + Dollars(SectionBudgetPenalty(SumPrices(c)))

\* C14: the score recorded for every scored combination is totalCost
\* - 30 * min(storeCount, maxStores) + budgetPenalty, the penalty being -80
\* for a ratio in [0.7, 0.95], +40 below 0.5, +20 above 0.98 and 0 in the
\* remaining bands.
C14_ScoreFormula ==
    \A i \in 1..Len(all_combinations) :
        all_combinations[i].score = SectionScore(all_combinations[i].combination)

\* A combination exactly at ratio 0.7 and one under 0.5 have been scored.
C14_Witness ==
    /\ budget # None
    /\ \E i \in 1..Len(all_combinations) :
          10 * SumPrices(all_combinations[i].combination) = 7 * budget[1]
    /\ \E i \in 1..Len(all_combinations) :
          2 * SumPrices(all_combinations[i].combination) < budget[1]

\* Number of index vectors before v in lexicographic order.
LexRank(v) == Cardinality({w \in IndexVectors : LexLess(w, v)})

AtLeaf == pc = "generate" /\ gen_pc = "call" /\ Depth >= Len(ingredient_names)
EnumerationLeft == pc \in {"fallback", "sort", "assemble", "returned", "raised"}

\* C15: the k-th complete combination visited is the k-th element of the
\* cartesian product of the option lists in lexicographic order (ingredients
\* in first-appearance order, options in the given order); it holds one
\* quote per ingredient, the i-th of the i-th ingredient; and once control
\* has left generate_combinations the number visited is the product of the
\* option counts.
C15_VisitsWholeProduct ==
    ValidRequest =>
        /\ AtLeaf =>
              /\ option_index \in IndexVectors
              /\ examined = LexRank(option_index)
              /\ current_combination = CombinationAt(option_index)
              /\ \A d \in 1..Len(current_combination) :
                    current_combination[d].name = RequestNames[d]
        /\ EnumerationLeft => examined = Cardinality(IndexVectors)

\* ------------------------------------------------------------------- C16
FallbackRuns == pc = "fallback"
EnumerationCompleted ==
    /\ pc = "generate" /\ gen_pc = "ret" /\ Depth = 0
    /\ examined = Cardinality(IndexVectors)
PlanOf(items) ==
    [stores_used   |-> StoreKeys(items),
     total_cost    |-> Round2(SumPrices(items)),
     shopping_list |-> [s \in StoreSet(items) |->
                           SelectSeq(items, LAMBDA q : q.store = s)]]

Range(f) == {f[x] : x \in DOMAIN f}
InFallbackLoop == pc = "fallback" /\ fb_index <= Len(ingredient_names)

\* The quote of the lowest price, the earliest in the given order among equal
\* prices, taken from the quotes at a used store when there is one and from
\* all the quotes otherwise.
CheapestPreferringUsed(given, used) ==
    LET at_used == {i \in DOMAIN given : given[i].store \in used}
        cand == IF at_used # {} THEN at_used ELSE DOMAIN given
        best == CHOOSE i \in cand : \A j \in cand :
                    \/ given[i].price < given[j].price
                    \/ given[i].price = given[j].price /\ i <= j
    IN  given[best]

\* C17: for each ingredient the greedy fallback processes, in the given
\* order, the choice made before the budget guard is the cheapest quote at a
\* used store (price ties in original order) or, when no quote of the
\* ingredient is at a used store, the cheapest quote of all, whose store is
\* then in the used-store set; the choice is the quote selected when the
\* guard lets it pass.
C17_ProvisionalChoice ==
    [][ InFallbackLoop =>
          LET name == RequestNames[fb_index]
              given == RequestOptions[name]
              choice == CheapestPreferringUsed(given, used_stores)
              fits == ~Truthy(budget)
                      \/ SumPrices(selected_items) + choice.price <= budget[1]
          IN  /\ ingredient_names[fb_index] = name
              /\ ingredient_options[name] = given
              /\ BestOption(SortByPrice(given), used_stores) = choice
              /\ choice.store \in used_stores'
              /\ fits => selected_items' = Append(selected_items, choice)
              /\ fb_index' = fb_index + 1
      ]_vars

\* The fallback has taken, for a later ingredient, a quote of a used store
\* that is not that ingredient's cheapest quote.
C17_Witness ==
    /\ pc = "fallback" /\ fb_index = 3
    /\ ValidRequest
    /\ Len(selected_items) = 2
    /\ selected_items[2].store = selected_items[1].store
    /\ \E q \in Range(RequestOptions[selected_items[2].name]) :
          q.price < selected_items[2].price

\* ------------------------------------------------------------------- C18
NameIndex(n) == CHOOSE i \in DOMAIN RequestNames : RequestNames[i] = n
IsSelected(k) ==
    \E i \in DOMAIN selected_items : selected_items[i].name = RequestNames[k]
\* The running total when the k-th ingredient was processed: the prices of
\* the quotes selected for the ingredients before it.
SpentBefore(k) ==
    SumPrices(SelectSeq(selected_items, LAMBDA q : NameIndex(q.name) < k))

\* C18: in the greedy fallback with a budget, every processed ingredient that
\* had some candidate quote keeping the running total within the budget has
\* been assigned a quote.
C18_SkippedOnlyIfUnaffordable ==
    (ValidRequest /\ budget # None /\ pc = "fallback") =>
        \A k \in 1..(fb_index - 1) :
            (\E q \in Range(RequestOptions[RequestNames[k]]) :
                SpentBefore(k) + q.price <= budget[1])
            => IsSelected(k)

\* ------------------------------------------------------------------- C19
\* C19: in the greedy fallback, after each ingredient is processed the
\* used-store set is the set of the stores of the quotes selected so far.
C19_UsedStoresAreSelectedStores ==
    (ValidRequest /\ pc = "fallback") => used_stores = StoreSet(selected_items)

\* ------------------------------------------------------------------- C20
NoDuplicates(seq) ==
    \A i, j \in DOMAIN seq : seq[i] = seq[j] => i = j
\* Position in the chosen quotes of the first quote bought at a store.
FirstQuoteAt(s) ==
    CHOOSE i \in DOMAIN best_combination :
        /\ best_combination[i].store = s
        /\ \A j \in 1..(i - 1) : best_combination[j].store # s

\* C20: in every returned plan stores_used has no duplicates, lists the
\* stores in the order of their first appearance among the chosen quotes, is
\* exactly the set of keys of shopping_list, and every store in it has a
\* non-empty quote list.
C20_StoresUsedWellFormed ==
    Returned =>
        /\ NoDuplicates(result.stores_used)
        /\ Range(result.stores_used) = DOMAIN result.shopping_list
        /\ Range(result.stores_used) = StoreSet(best_combination)
        /\ \A i, j \in DOMAIN result.stores_used :
              i < j => FirstQuoteAt(result.stores_used[i])
                         < FirstQuoteAt(result.stores_used[j])
        /\ \A s \in Range(result.stores_used) : result.shopping_list[s] # <<>>

\* A returned plan of two stores whose first store is not the first store of
\* the catalogue, and which buys again at its first store after its second.
C20_Witness ==
    /\ Returned /\ ValidRequest
    /\ Len(result.stores_used) = 2
    /\ result.stores_used[1] = StoreNames[2]
    /\ Len(best_combination) = 3
    /\ best_combination[3].store = result.stores_used[1]

\* ------------------------------------------------------------------- C21
\* Position of a chosen quote in the processing order.
ChosenPosition(q) == CHOOSE i \in DOMAIN best_combination : best_combination[i] = q
Occurrences(q) ==
    Cardinality({<<s, i>> \in (DOMAIN result.shopping_list) \X (1..Len(best_combination)) :
                    /\ i \in DOMAIN result.shopping_list[s]
                    /\ result.shopping_list[s][i] = q})

\* C21: in a returned plan every chosen quote is in exactly one store list,
\* the list of its own store; no other quote is in any list; and each list
\* keeps the quotes in the order in which they were chosen.
C21_AssemblerPartitions ==
    Returned =>
        /\ \A q \in Range(best_combination) :
              /\ Occurrences(q) = 1
              /\ q.store \in DOMAIN result.shopping_list
              /\ q \in Range(result.shopping_list[q.store])
        /\ \A s \in DOMAIN result.shopping_list :
              LET list == result.shopping_list[s]
              IN  /\ \A i \in DOMAIN list :
                        list[i] \in Range(best_combination) /\ list[i].store = s
                  /\ \A i, j \in DOMAIN list :
                        i < j => ChosenPosition(list[i]) < ChosenPosition(list[j])

\* A returned plan whose first store list holds the first and the third
\* chosen quote, the second having gone to another store.
C21_Witness ==
    /\ Returned /\ ValidRequest
    /\ Len(best_combination) = 3
    /\ best_combination[2].store # best_combination[1].store
    /\ result.shopping_list[best_combination[1].store]
          = <<best_combination[1], best_combination[3]>>

\* ------------------------------------------------------------------- C22
OverBudgetPenalty == Dollars(1000)
UtilizationTerms == {Dollars(0 - 80), Dollars(0), Dollars(20), Dollars(40)}

\* C22: every combination recorded in all_combinations, that is every
\* combination calculate_score was called with, has totalCost <= budget and
\* storeCount <= maxStores, and its score holds no over-budget penalty: the
\* score is the cost plus the variety bonus plus one of -80, 0, 20, 40.
C22_OnlyFeasibleScored ==
    \A i \in DOMAIN all_combinations :
        LET c == all_combinations[i].combination
            base == SumPrices(c) + Dollars((0 - 30) * Min(StoreCount(c), max_stores))
        IN  /\ budget # None
            /\ SumPrices(c) <= budget[1]
            /\ StoreCount(c) <= max_stores
            /\ all_combinations[i].score # base + OverBudgetPenalty
            /\ all_combinations[i].score - base \in UtilizationTerms

\* The enumeration is over, it recorded a combination and it discarded a
\* combination that was over budget.
C22_Witness ==
    /\ pc = "sort" /\ ValidRequest
    /\ all_combinations # <<>>
    /\ examined > Len(all_combinations)
    /\ \E c \in Combinations :
          StoreCount(c) <= max_stores /\ SumPrices(c) > budget[1]

\* ------------------------------------------------------------------- C23
\* C23: no step of an optimization call, on the exhaustive path or on the
\* fallback path, changes the input quote list (same quotes, same order, same
\* fields) or the conversation history of the agent; the in-place price sort
\* reorders only the option lists grouped inside the call.
C23_InputAndAgentUnchanged ==
    [][ /\ all_prices' = all_prices
        /\ conversation_history' = conversation_history
        /\ pc' = "returned" => RequestOptions' = RequestOptions
      ]_vars

\* A call has returned by the fallback path after its price sort reordered
\* the options of an ingredient.
C23_Witness ==
    /\ Returned /\ ViaFallback /\ ValidRequest
    /\ \E name \in DOMAIN ingredient_options :
          ingredient_options[name] # RequestOptions[name]

\* ============================================ parallel search (section 5)
\* The enumeration split into one sub-tree per choice of the first
\* prefix_len ingredients, each searched by a worker, the worker outputs
\* merged in the order the workers complete. A sub-tree is named by the
\* option indexes of its fixed ingredients; an output is <<>> (no feasible
\* combination in the sub-tree) or <<[vector, score]>>, the index vector and
\* the score of the best one.
Subtree(p) == {v \in IndexVectors : \A d \in 1..Len(p) : v[d] = p[d]}

FeasibleIn(S) ==
    {v \in S : CombinationAt(v) # <<>> /\ IsFeasible(CombinationAt(v))}

\* Lower score first; equal scores in canonical (generation) order.
Better(a, b) ==
    \/ a.score < b.score
    \/ a.score = b.score /\ LexLess(a.vector, b.vector)

WorkerOutput(p) ==
    LET scored == {[vector |-> v, score |-> ScoreOf(CombinationAt(v))] :
                      v \in FeasibleIn(Subtree(p))}
    IN  IF scored = {} THEN <<>>
        ELSE <<CHOOSE a \in scored : \A b \in scored \ {a} : Better(a, b)>>

Merge(a, b) ==
    IF a = <<>> THEN b
    ELSE IF b = <<>> THEN a
    ELSE IF Better(b[1], a[1]) THEN b ELSE a

\* After the single-threaded call returned, the same request is searched in
\* parallel, split on the first k ingredients, by at most MaxWorkers workers.
StartWorkers ==
    /\ pc = "returned" /\ call = 1
    /\ \E k \in 0..Len(RequestNames) :
          /\ Cardinality(IndexVectorsTo(k)) <= MaxWorkers
          /\ prefix_len' = k
          /\ pending' = IndexVectorsTo(k)
    /\ merged' = <<>>
    /\ pc' = "merging"
    /\ UNCHANGED <<chat_vars, recipe_vars, price_vars,
                   all_prices, max_stores, budget, ingredient_names,
                   ingredient_options, current_combination, option_index, gen_pc,
                   all_combinations, examined, selected_items, used_stores, fb_index,
                   best_combination, result, call, first_result>>

\* Some worker completes; its output is merged into the global result.
WorkerCompletes ==
    /\ pc = "merging"
    /\ \E p \in pending :
          /\ merged' = Merge(merged, WorkerOutput(p))
          /\ pending' = pending \ {p}
    /\ UNCHANGED <<chat_vars, recipe_vars, price_vars, prefix_len, optimizer_vars>>

NextParallel ==
    \/ Next
    \/ StartWorkers
    \/ WorkerCompletes

\* The requests of at most MaxParallelQuotes quotes.
InitParallel == Init /\ Len(all_prices) <= MaxParallelQuotes

SpecParallel == InitParallel /\ [][NextParallel]_vars

\* ------------------------------------------------------------------- C24
AllWorkersDone == pc = "merging" /\ pending = {}

\* C24: once every worker has completed, in whatever order, the merged
\* result is the combination the single-threaded search returned; it is
\* empty exactly when the single-threaded search recorded no feasible
\* combination.
C24_ParallelSameChoice ==
    AllWorkersDone =>
        IF merged = <<>> THEN all_combinations = <<>>
        ELSE /\ all_combinations # <<>>
             /\ CombinationAt(merged[1].vector) = best_combination

\* Workers of different sub-trees, each holding part of the first
\* ingredient's options, reported feasible combinations of equal score.
C24_Witness ==
    /\ AllWorkersDone /\ ValidRequest
    /\ prefix_len >= 1 /\ prefix_len < Len(RequestNames)
    /\ merged # <<>>
    /\ \E v \in FeasibleIn(IndexVectors) :
          /\ v[1] # merged[1].vector[1]
          /\ ScoreOf(CombinationAt(v)) = merged[1].score

\* ------------------------------------------------------------------- C25
\* C25: every optimization call with a numeric budget eventually returns a
\* plan.
C25_EventuallyReturns == (budget # None) ~> Returned

\* A call with a numeric budget has returned after an enumeration of several
\* combinations followed by a fallback over several ingredients.
C25_Witness ==
    /\ Returned /\ budget # None
    /\ examined >= 4
    /\ ViaFallback
    /\ Len(ingredient_names) >= 2

\* ------------------------------------------------------------------- C26
EmptyRequest == all_prices = <<>>

\* C26: for a request with no quotes, whatever max_stores and budget (None
\* included), the call raises no error and the plan it returns is empty:
\* no store, total 0, no store list; nothing was recorded as feasible and
\* the fallback selected nothing.
C26_EmptyRequestEmptyPlan ==
    EmptyRequest =>
        /\ pc # "raised"
        /\ all_combinations = <<>>
        /\ selected_items = <<>>
        /\ Returned =>
              /\ result.stores_used = <<>>
              /\ result.total_cost = 0
              /\ DOMAIN result.shopping_list = {}

\* C26, that the call does return: from an empty request the only run goes
\* through the enumeration, the fallback and the assembly.
C26_Witness ==
    /\ EmptyRequest /\ Returned
    /\ budget = None
    /\ examined = 1
    /\ fb_index = 1

\* ==================================== _generate_recipe_ingredients (90-403)
\* A Python str is the sequence of its characters. The ingredient lists keep
\* the ingredient names; lists equal in the source are equal here.
MaxWords == 2

\* No optimization call is running and none has run.
NoCall ==
    /\ all_prices = <<>> /\ max_stores = 0 /\ budget = None
    /\ ingredient_names = <<>>
    /\ ingredient_options = GroupByName(<<>>)
    /\ current_combination = <<>>
    /\ option_index = <<>>
    /\ gen_pc = "call"
    /\ all_combinations = <<>>
    /\ examined = 0
    /\ selected_items = <<>>
    /\ used_stores = {}
    /\ fb_index = 1
    /\ best_combination = <<>>
    /\ result = EmptyPlan
    /\ call = 1
    /\ first_result = EmptyPlan

\* lines 93-388: the recipe table, in the order of the dict literal.
recipe_ingredients == <<
    \* line 94: "pizza"
    [recipe |-> <<"p", "i", "z", "z", "a">>,
     ingredients |-> <<"Pizza dough", "Tomato sauce", "Mozzarella cheese", "Pepperoni", "Olive oil", "Italian seasoning">>],
    \* line 102: "pasta"
    [recipe |-> <<"p", "a", "s", "t", "a">>,
     ingredients |-> <<"Spaghetti", "Olive oil", "Garlic", "Parmesan cheese", "Salt", "Black pepper">>],
    \* line 110: "chicken curry"
    [recipe |-> <<"c", "h", "i", "c", "k", "e", "n", " ", "c", "u", "r", "r", "y">>,
     ingredients |-> <<"Chicken breast", "Onion", "Garlic", "Ginger", "Curry powder", "Coconut milk", "Rice", "Cilantro">>],
    \* line 120: "salad"
    [recipe |-> <<"s", "a", "l", "a", "d">>,
     ingredients |-> <<"Mixed greens", "Cherry tomatoes", "Cucumber", "Red onion", "Olive oil", "Balsamic vinegar", "Feta cheese">>],
    \* line 129: "tacos"
    [recipe |-> <<"t", "a", "c", "o", "s">>,
     ingredients |-> <<"Ground beef", "Taco seasoning", "Tortillas", "Lettuce", "Tomatoes", "Cheese", "Sour cream">>],
    \* line 138: "stir fry"
    [recipe |-> <<"s", "t", "i", "r", " ", "f", "r", "y">>,
     ingredients |-> <<"Chicken breast", "Broccoli", "Bell peppers", "Carrots", "Garlic", "Ginger", "Soy sauce", "Rice", "Cooking oil">>],
    \* line 149: "soup"
    [recipe |-> <<"s", "o", "u", "p">>,
     ingredients |-> <<"Chicken breast", "Carrots", "Onion", "Garlic", "Celery", "Chicken broth", "Salt", "Black pepper">>],
    \* line 159: "sandwich"
    [recipe |-> <<"s", "a", "n", "d", "w", "i", "c", "h">>,
     ingredients |-> <<"Bread", "Turkey", "Cheese", "Lettuce", "Tomatoes", "Mayonnaise", "Mustard">>],
    \* line 168: "breakfast"
    [recipe |-> <<"b", "r", "e", "a", "k", "f", "a", "s", "t">>,
     ingredients |-> <<"Eggs", "Bacon", "Bread", "Butter", "Milk", "Orange juice">>],
    \* line 176: "barbecue"
    [recipe |-> <<"b", "a", "r", "b", "e", "c", "u", "e">>,
     ingredients |-> <<"Ground beef", "Hamburger buns", "Cheese", "Lettuce", "Tomatoes", "Onion", "Ketchup", "Mustard">>],
    \* line 186: "guacamole"
    [recipe |-> <<"g", "u", "a", "c", "a", "m", "o", "l", "e">>,
     ingredients |-> <<"Avocados", "Lime", "Red onion", "Tomatoes", "Cilantro", "Salt", "Black pepper", "Garlic">>],
    \* line 196: "guacemole"
    [recipe |-> <<"g", "u", "a", "c", "e", "m", "o", "l", "e">>,
     ingredients |-> <<"Avocados", "Lime", "Red onion", "Tomatoes", "Cilantro", "Salt", "Black pepper", "Garlic">>],
    \* line 206: "spaghetti carbonara"
    [recipe |-> <<"s", "p", "a", "g", "h", "e", "t", "t", "i", " ", "c", "a", "r", "b", "o", "n", "a", "r", "a">>,
     ingredients |-> <<"Spaghetti", "Bacon", "Eggs", "Parmesan cheese", "Black pepper", "Salt", "Olive oil">>],
    \* line 215: "chicken alfredo"
    [recipe |-> <<"c", "h", "i", "c", "k", "e", "n", " ", "a", "l", "f", "r", "e", "d", "o">>,
     ingredients |-> <<"Fettuccine", "Chicken breast", "Heavy cream", "Parmesan cheese", "Butter", "Garlic", "Black pepper", "Salt">>],
    \* line 225: "beef stir fry"
    [recipe |-> <<"b", "e", "e", "f", " ", "s", "t", "i", "r", " ", "f", "r", "y">>,
     ingredients |-> <<"Beef strips", "Broccoli", "Bell peppers", "Carrots", "Soy sauce", "Sesame oil", "Garlic", "Ginger", "Rice">>],
    \* line 236: "fish tacos"
    [recipe |-> <<"f", "i", "s", "h", " ", "t", "a", "c", "o", "s">>,
     ingredients |-> <<"White fish fillets", "Tortillas", "Cabbage", "Lime", "Cilantro", "Sour cream", "Avocados", "Olive oil">>],
    \* line 246: "vegetarian lasagna"
    [recipe |-> <<"v", "e", "g", "e", "t", "a", "r", "i", "a", "n", " ", "l", "a", "s", "a", "g", "n", "a">>,
     ingredients |-> <<"Lasagna noodles", "Ricotta cheese", "Mozzarella cheese", "Spinach", "Tomato sauce", "Onion", "Garlic", "Olive oil">>],
    \* line 256: "chicken soup"
    [recipe |-> <<"c", "h", "i", "c", "k", "e", "n", " ", "s", "o", "u", "p">>,
     ingredients |-> <<"Chicken breast", "Chicken broth", "Carrots", "Celery", "Onion", "Garlic", "Rice", "Salt", "Black pepper">>],
    \* line 267: "beef chili"
    [recipe |-> <<"b", "e", "e", "f", " ", "c", "h", "i", "l", "i">>,
     ingredients |-> <<"Ground beef", "Kidney beans", "Tomato sauce", "Onion", "Bell peppers", "Garlic", "Chili powder", "Cumin", "Salt">>],
    \* line 278: "shrimp scampi"
    [recipe |-> <<"s", "h", "r", "i", "m", "p", " ", "s", "c", "a", "m", "p", "i">>,
     ingredients |-> <<"Shrimp", "Linguine", "Butter", "Olive oil", "Garlic", "Lemon", "White wine", "Parsley", "Salt", "Black pepper">>],
    \* line 290: "vegetable stir fry"
    [recipe |-> <<"v", "e", "g", "e", "t", "a", "b", "l", "e", " ", "s", "t", "i", "r", " ", "f", "r", "y">>,
     ingredients |-> <<"Broccoli", "Bell peppers", "Carrots", "Snow peas", "Mushrooms", "Soy sauce", "Sesame oil", "Garlic", "Ginger", "Rice">>],
    \* line 302: "chicken parmesan"
    [recipe |-> <<"c", "h", "i", "c", "k", "e", "n", " ", "p", "a", "r", "m", "e", "s", "a", "n">>,
     ingredients |-> <<"Chicken breast", "Breadcrumbs", "Eggs", "Mozzarella cheese", "Parmesan cheese", "Tomato sauce", "Spaghetti", "Olive oil", "Garlic">>],
    \* line 313: "beef tacos"
    [recipe |-> <<"b", "e", "e", "f", " ", "t", "a", "c", "o", "s">>,
     ingredients |-> <<"Ground beef", "Taco seasoning", "Tortillas", "Lettuce", "Tomatoes", "Cheese", "Sour cream", "Onion">>],
    \* line 323: "salmon dinner"
    [recipe |-> <<"s", "a", "l", "m", "o", "n", " ", "d", "i", "n", "n", "e", "r">>,
     ingredients |-> <<"Salmon fillets", "Asparagus", "Lemon", "Butter", "Garlic", "Rice", "Olive oil", "Dill", "Salt", "Black pepper">>],
    \* line 335: "pasta primavera"
    [recipe |-> <<"p", "a", "s", "t", "a", " ", "p", "r", "i", "m", "a", "v", "e", "r", "a">>,
     ingredients |-> <<"Penne", "Broccoli", "Bell peppers", "Cherry tomatoes", "Zucchini", "Olive oil", "Garlic", "Parmesan cheese", "Basil", "Salt", "Black pepper">>],
    \* line 348: "chicken fajitas"
    [recipe |-> <<"c", "h", "i", "c", "k", "e", "n", " ", "f", "a", "j", "i", "t", "a", "s">>,
     ingredients |-> <<"Chicken breast", "Bell peppers", "Onion", "Tortillas", "Sour cream", "Cheese", "Lime", "Cilantro", "Olive oil", "Fajita seasoning">>],
    \* line 360: "beef stew"
    [recipe |-> <<"b", "e", "e", "f", " ", "s", "t", "e", "w">>,
     ingredients |-> <<"Beef chuck", "Potatoes", "Carrots", "Onion", "Beef broth", "Tomato paste", "Garlic", "Worcestershire sauce", "Flour", "Olive oil", "Salt", "Black pepper">>],
    \* line 374: "vegetable soup"
    [recipe |-> <<"v", "e", "g", "e", "t", "a", "b", "l", "e", " ", "s", "o", "u", "p">>,
     ingredients |-> <<"Vegetable broth", "Carrots", "Celery", "Onion", "Potatoes", "Tomatoes", "Green beans", "Garlic", "Olive oil", "Salt", "Black pepper", "Italian seasoning">>] >>

\* lines 397-403.
GenericIngredients == <<"Main protein", "Vegetables", "Starch", "Seasonings", "Cooking oil">>

UpperLetters == <<"A", "B", "C", "D", "E", "F", "G", "H", "I", "J", "K", "L", "M",
                  "N", "O", "P", "Q", "R", "S", "T", "U", "V", "W", "X", "Y", "Z">>
LowerLetters == <<"a", "b", "c", "d", "e", "f", "g", "h", "i", "j", "k", "l", "m",
                  "n", "o", "p", "q", "r", "s", "t", "u", "v", "w", "x", "y", "z">>

\* str.lower().
LowerChar(c) ==
    IF \E i \in DOMAIN UpperLetters : UpperLetters[i] = c
    THEN LowerLetters[CHOOSE i \in DOMAIN UpperLetters : UpperLetters[i] = c]
    ELSE c
LowerString(str) == [i \in DOMAIN str |-> LowerChar(str[i])]

\* sub in str.
IsSubstring(sub, str) ==
    \E i \in 0..(Len(str) - Len(sub)) : SubSeq(str, i + 1, i + Len(sub)) = sub

\* str.split(): the maximal runs of characters other than the blank.
RECURSIVE SplitWords(_)
SplitWords(str) ==
    IF str = <<>> THEN <<>>
    ELSE IF Head(str) = " " THEN SplitWords(Tail(str))
    ELSE LET blanks == {i \in DOMAIN str : str[i] = " "}
             stop == IF blanks = {} THEN Len(str) + 1
                     ELSE CHOOSE i \in blanks : \A j \in blanks : i <= j
         IN  <<SubSeq(str, 1, stop - 1)>> \o SplitWords(SubSeq(str, stop, Len(str)))

\* The test of line 393 on the whole recipe name only.
RecipeMatches_WholeNameOnly(recipe, food_lower) ==
    IsSubstring(recipe, food_lower)

\* line 393.
RecipeMatches(recipe, food_lower) ==
    \/ IsSubstring(recipe, food_lower)
    \/ \E k \in DOMAIN SplitWords(recipe) : IsSubstring(SplitWords(recipe)[k], food_lower)

\* lines 392-403: the loop over the table from entry i on, then the generic
\* list.
RECURSIVE ScanRecipes(_, _)
ScanRecipes(i, food_lower) ==
    IF i > Len(recipe_ingredients) THEN GenericIngredients
    ELSE IF RecipeMatches(recipe_ingredients[i].recipe, food_lower)
         THEN recipe_ingredients[i].ingredients
         ELSE ScanRecipes(i + 1, food_lower)

\* lines 390-403.
generate_recipe_ingredients(food) == ScanRecipes(1, LowerString(food))

\* The food items asked for: every recipe name of the table, and the phrases
\* of at most MaxWords words of the vocabulary.
RecipeNames == {recipe_ingredients[i].recipe : i \in DOMAIN recipe_ingredients}
\* Words of recipe names, and words that are none: other dishes, capitals, a
\* word with a recipe word inside it, a piece of a recipe word.
RecipeWords ==
    {<<"c", "h", "i", "c", "k", "e", "n">>, <<"c", "u", "r", "r", "y">>, <<"s", "o", "u", "p">>,
     <<"b", "e", "e", "f">>, <<"f", "i", "s", "h">>, <<"t", "a", "c", "o", "s">>,
     <<"s", "t", "i", "r">>, <<"f", "r", "y">>, <<"p", "a", "s", "t", "a">>,
     <<"s", "t", "e", "w">>, <<"c", "h", "i", "l", "i">>,
     <<"v", "e", "g", "e", "t", "a", "b", "l", "e">>, <<"l", "a", "s", "a", "g", "n", "a">>}
OtherWords ==
    {<<"s", "u", "s", "h", "i">>, <<"r", "a", "m", "e", "n">>, <<"P", "i", "z", "z", "a">>,
     <<"S", "O", "U", "P">>, <<"s", "o", "u", "p", "y">>, <<"f", "r">>, <<"B", "e", "e", "f">>}
Vocabulary == RecipeWords \cup OtherWords

RECURSIVE JoinWords(_)
JoinWords(words) ==
    IF words = <<>> THEN <<>>
    ELSE IF Len(words) = 1 THEN words[1]
    ELSE words[1] \o <<" ">> \o JoinWords(Tail(words))

FoodItems ==
    RecipeNames \cup {<<>>}
    \cup UNION {{JoinWords(ws) : ws \in [1..n -> Vocabulary]} : n \in 1..MaxWords}

InitRecipe ==
    /\ food_item \in FoodItems
    /\ ingredients = <<>>
    /\ pc = "lookup"
    /\ NoCall /\ ChatIdle /\ ParallelIdle /\ PriceIdle

LookupRecipe ==
    /\ pc = "lookup"
    /\ ingredients' = generate_recipe_ingredients(food_item)
    /\ pc' = "looked_up"
    /\ UNCHANGED <<food_item, chat_vars, parallel_vars, price_vars,
                   all_prices, max_stores, budget, ingredient_names,
                   ingredient_options, current_combination, option_index, gen_pc,
                   all_combinations, examined, selected_items, used_stores, fb_index,
                   best_combination, result, call, first_result>>

NextRecipe == LookupRecipe

SpecRecipe == InitRecipe /\ [][NextRecipe]_vars

\* ------------------------------------------------------------------- C27
LookedUp == pc = "looked_up"

\* C27: for a food item that is exactly a key of the recipe table, the list
\* returned is the list stored under that key.
C27_ExactKeyOwnList ==
    LookedUp =>
        \A i \in DOMAIN recipe_ingredients :
            food_item = recipe_ingredients[i].recipe
            => ingredients = recipe_ingredients[i].ingredients

\* ------------------------------------------------------------------- C28
\* str contains sub at some offset.
Contains(str, sub) ==
    \E i, j \in 0..Len(str) :
        /\ i <= j
        /\ [k \in 1..(j - i) |-> str[i + k]] = sub

\* The words of a recipe name: its maximal blank-free pieces.
WordsOf(name) ==
    {SubSeq(name, a, b) : <<a, b>> \in
        {<<a, b>> \in (DOMAIN name) \X (DOMAIN name) :
            /\ a <= b
            /\ \A k \in a..b : name[k] # " "
            /\ a = 1 \/ name[a - 1] = " "
            /\ b = Len(name) \/ name[b + 1] = " "}}

MatchingRecipes(food_lower) ==
    {i \in DOMAIN recipe_ingredients :
        \/ Contains(food_lower, recipe_ingredients[i].recipe)
        \/ \E w \in WordsOf(recipe_ingredients[i].recipe) : Contains(food_lower, w)}

\* C28: the generic five-ingredient list is returned if and only if the
\* lowercased food item contains no recipe name and no word of a recipe name;
\* otherwise the list of the first recipe of the table that matches by
\* either test is returned.
C28_FirstMatchOrGeneric ==
    LookedUp =>
        LET matching == MatchingRecipes(LowerString(food_item))
        IN  /\ ingredients = GenericIngredients <=> matching = {}
            /\ matching # {} =>
                  LET first == CHOOSE i \in matching : \A j \in matching : i <= j
                  IN  ingredients = recipe_ingredients[first].ingredients

\* A food item with a capital letter that contains no recipe name, matches
\* several recipes by a word, and got the list of the first of them.
C28_Witness ==
    /\ LookedUp
    /\ food_item # LowerString(food_item)
    /\ \A r \in RecipeNames : ~Contains(LowerString(food_item), r)
    /\ Cardinality(MatchingRecipes(LowerString(food_item))) >= 2
    /\ ingredients # GenericIngredients

\* ========================================= _simulate_store_prices (405-581)
\* Prices are whole cents here; multipliers and the random factors are
\* hundredths, so a product is an exact fraction of a cent before round().
\* The quote keeps name, category, store and price (quantity is copied from
\* the ingredient and location is drawn from the store's locations; nothing
\* reads them).
MinimumPrice == 50

\* lines 409-416, in hundredths.
store_multipliers ==
    "Walmart" :> ("budget" :> 75 @@ "mid-range" :> 95 @@ "premium" :> 115)
    @@ "Target" :> ("budget" :> 85 @@ "mid-range" :> 100 @@ "premium" :> 110)
    @@ "Whole Foods" :> ("budget" :> 140 @@ "mid-range" :> 160 @@ "premium" :> 180)
    @@ "Kroger" :> ("budget" :> 80 @@ "mid-range" :> 100 @@ "premium" :> 120)
    @@ "Trader Joe's" :> ("budget" :> 90 @@ "mid-range" :> 105 @@ "premium" :> 115)
    @@ "Aldi" :> ("budget" :> 65 @@ "mid-range" :> 75 @@ "premium" :> 85)

\* lines 419-537: base prices in cents. A name written twice in the dict literal
\* keeps its last entry.
ingredient_prices == {
    [name |-> "Chicken breast", base |-> 499, category |-> "Meat"],
    [name |-> "Ground beef", base |-> 599, category |-> "Meat"],
    [name |-> "Salmon", base |-> 1299, category |-> "Meat"],
    [name |-> "Pork chops", base |-> 699, category |-> "Meat"],
    [name |-> "Turkey", base |-> 399, category |-> "Meat"],
    [name |-> "Bacon", base |-> 799, category |-> "Meat"],
    [name |-> "Pepperoni", base |-> 499, category |-> "Deli"],
    [name |-> "Onion", base |-> 149, category |-> "Produce"],
    [name |-> "Garlic", base |-> 99, category |-> "Produce"],
    [name |-> "Ginger", base |-> 299, category |-> "Produce"],
    [name |-> "Tomatoes", base |-> 299, category |-> "Produce"],
    [name |-> "Lettuce", base |-> 199, category |-> "Produce"],
    [name |-> "Mixed greens", base |-> 399, category |-> "Produce"],
    [name |-> "Cherry tomatoes", base |-> 399, category |-> "Produce"],
    [name |-> "Cucumber", base |-> 149, category |-> "Produce"],
    [name |-> "Red onion", base |-> 129, category |-> "Produce"],
    [name |-> "Cilantro", base |-> 199, category |-> "Produce"],
    [name |-> "Bell peppers", base |-> 299, category |-> "Produce"],
    [name |-> "Carrots", base |-> 199, category |-> "Produce"],
    [name |-> "Broccoli", base |-> 249, category |-> "Produce"],
    [name |-> "Spinach", base |-> 299, category |-> "Produce"],
    [name |-> "Mozzarella cheese", base |-> 499, category |-> "Dairy"],
    [name |-> "Parmesan cheese", base |-> 599, category |-> "Dairy"],
    [name |-> "Cheese", base |-> 499, category |-> "Dairy"],
    [name |-> "Feta cheese", base |-> 499, category |-> "Dairy"],
    [name |-> "Sour cream", base |-> 299, category |-> "Dairy"],
    [name |-> "Milk", base |-> 399, category |-> "Dairy"],
    [name |-> "Eggs", base |-> 499, category |-> "Dairy"],
    [name |-> "Butter", base |-> 499, category |-> "Dairy"],
    [name |-> "Spaghetti", base |-> 199, category |-> "Pantry"],
    [name |-> "Rice", base |-> 299, category |-> "Pantry"],
    [name |-> "Olive oil", base |-> 899, category |-> "Pantry"],
    [name |-> "Tomato sauce", base |-> 299, category |-> "Pantry"],
    [name |-> "Coconut milk", base |-> 299, category |-> "Pantry"],
    [name |-> "Pasta", base |-> 199, category |-> "Pantry"],
    [name |-> "Bread", base |-> 399, category |-> "Bakery"],
    [name |-> "Tortillas", base |-> 299, category |-> "Bakery"],
    [name |-> "Pizza dough", base |-> 399, category |-> "Bakery"],
    [name |-> "Salt", base |-> 199, category |-> "Spices"],
    [name |-> "Black pepper", base |-> 299, category |-> "Spices"],
    [name |-> "Italian seasoning", base |-> 399, category |-> "Spices"],
    [name |-> "Curry powder", base |-> 399, category |-> "Spices"],
    [name |-> "Taco seasoning", base |-> 199, category |-> "Spices"],
    [name |-> "Balsamic vinegar", base |-> 499, category |-> "Pantry"],
    [name |-> "Avocados", base |-> 299, category |-> "Produce"],
    [name |-> "Lime", base |-> 99, category |-> "Produce"],
    [name |-> "Celery", base |-> 299, category |-> "Produce"],
    [name |-> "Hamburger buns", base |-> 399, category |-> "Bakery"],
    [name |-> "Mayonnaise", base |-> 399, category |-> "Pantry"],
    [name |-> "Mustard", base |-> 299, category |-> "Pantry"],
    [name |-> "Ketchup", base |-> 299, category |-> "Pantry"],
    [name |-> "Orange juice", base |-> 499, category |-> "Pantry"],
    [name |-> "Soy sauce", base |-> 399, category |-> "Pantry"],
    [name |-> "Chicken broth", base |-> 299, category |-> "Pantry"],
    [name |-> "Beef strips", base |-> 899, category |-> "Meat"],
    [name |-> "Beef chuck", base |-> 699, category |-> "Meat"],
    [name |-> "White fish fillets", base |-> 999, category |-> "Meat"],
    [name |-> "Shrimp", base |-> 1299, category |-> "Meat"],
    [name |-> "Salmon fillets", base |-> 1299, category |-> "Meat"],
    [name |-> "Asparagus", base |-> 499, category |-> "Produce"],
    [name |-> "Zucchini", base |-> 299, category |-> "Produce"],
    [name |-> "Snow peas", base |-> 399, category |-> "Produce"],
    [name |-> "Mushrooms", base |-> 399, category |-> "Produce"],
    [name |-> "Cabbage", base |-> 199, category |-> "Produce"],
    [name |-> "Green beans", base |-> 299, category |-> "Produce"],
    [name |-> "Potatoes", base |-> 399, category |-> "Produce"],
    [name |-> "Lemon", base |-> 99, category |-> "Produce"],
    [name |-> "Parsley", base |-> 199, category |-> "Produce"],
    [name |-> "Dill", base |-> 199, category |-> "Produce"],
    [name |-> "Basil", base |-> 299, category |-> "Produce"],
    [name |-> "Heavy cream", base |-> 399, category |-> "Dairy"],
    [name |-> "Ricotta cheese", base |-> 499, category |-> "Dairy"],
    [name |-> "Fettuccine", base |-> 299, category |-> "Pantry"],
    [name |-> "Linguine", base |-> 299, category |-> "Pantry"],
    [name |-> "Penne", base |-> 299, category |-> "Pantry"],
    [name |-> "Lasagna noodles", base |-> 399, category |-> "Pantry"],
    [name |-> "Breadcrumbs", base |-> 299, category |-> "Pantry"],
    [name |-> "Kidney beans", base |-> 199, category |-> "Pantry"],
    [name |-> "Tomato paste", base |-> 199, category |-> "Pantry"],
    [name |-> "Beef broth", base |-> 299, category |-> "Pantry"],
    [name |-> "Vegetable broth", base |-> 299, category |-> "Pantry"],
    [name |-> "Sesame oil", base |-> 499, category |-> "Pantry"],
    [name |-> "White wine", base |-> 899, category |-> "Pantry"],
    [name |-> "Worcestershire sauce", base |-> 399, category |-> "Pantry"],
    [name |-> "Flour", base |-> 299, category |-> "Pantry"],
    [name |-> "Chili powder", base |-> 299, category |-> "Spices"],
    [name |-> "Cumin", base |-> 299, category |-> "Spices"],
    [name |-> "Fajita seasoning", base |-> 199, category |-> "Spices"],
    [name |-> "Main protein", base |-> 899, category |-> "Meat"],
    [name |-> "Vegetables", base |-> 399, category |-> "Produce"],
    [name |-> "Starch", base |-> 299, category |-> "Pantry"],
    [name |-> "Seasonings", base |-> 199, category |-> "Spices"],
    [name |-> "Cooking oil", base |-> 499, category |-> "Pantry"] }

\* lines 546-554, in cents.
category_defaults ==
    "Meat" :> 899 @@ "Produce" :> 399 @@ "Dairy" :> 499 @@ "Pantry" :> 299 @@ "Bakery" :> 399 @@ "Deli" :> 699 @@ "Spices" :> 199

StoreTable == DOMAIN store_multipliers
PriceRanges == {"budget", "mid-range", "premium"}

\* line 562: random.uniform(0.85, 1.15), the two ends and values between.
Variations == {85, 93, 100, 115}
\* line 566: random.uniform(0.8, 1.3), the two ends and values between.
SeasonalAdjustments == {80, 100, 130}

KnownNames == {r.name : r \in ingredient_prices}
PriceEntry(name) == CHOOSE r \in ingredient_prices : r.name = name

\* lines 540-556.
BasePrice(ing) ==
    IF ing.name \in KnownNames THEN PriceEntry(ing.name).base
    ELSE IF ing.category \in DOMAIN category_defaults
         THEN category_defaults[ing.category]
         ELSE 399
PriceCategory(ing) ==
    IF ing.name \in KnownNames THEN PriceEntry(ing.name).category ELSE ing.category

\* line 559, for a store of the table.
Multiplier(st, tier) ==
    IF tier \in DOMAIN store_multipliers[st] THEN store_multipliers[st][tier] ELSE 100

\* round(x, 2) of x = num / den cents: the nearest cent; for a product that
\* is exactly half a cent the float holding it lies on one side or the
\* other, so either cent can come out.
RoundCents(num, den) ==
    LET q == num \div den
        r == num % den
    IN  IF 2 * r < den THEN {q}
        ELSE IF 2 * r > den THEN {q + 1}
        ELSE {q, q + 1}

\* lines 565-569: the prices round() can give for the two random factors.
RoundedPrices(ing, st, tier, variation, seasonal_adjustment) ==
    IF PriceCategory(ing) = "Produce"
    THEN RoundCents(BasePrice(ing) * Multiplier(st, tier) * variation * seasonal_adjustment,
                    1000000)
    ELSE RoundCents(BasePrice(ing) * Multiplier(st, tier) * variation, 10000)

\* The price returned as rounded, without the floor of line 572.
FloorPrice_None(final_price) == final_price

\* line 572: max(0.50, final_price).
FloorPrice(final_price) ==
    IF final_price < MinimumPrice THEN MinimumPrice ELSE final_price

\* The ingredients priced: every name of the price table under its own
\* category, and names the table does not know under every category and
\* under one no default exists for.
Categories == DOMAIN category_defaults
PricedIngredients ==
    {[name |-> r.name, category |-> r.category] : r \in ingredient_prices}
    \cup {[name |-> "Fish sauce", category |-> c] : c \in Categories \cup {"Frozen"}}

InitPrices ==
    /\ ingredient \in PricedIngredients
    /\ store \in StoreTable
    /\ price_range \in PriceRanges \cup {"luxury"}
    /\ price_info = [name |-> "", category |-> "", store |-> "", price |-> 0]
    /\ pc = "pricing"
    /\ NoCall /\ ChatIdle /\ ParallelIdle /\ RecipeIdle

\* lines 405-581.
SimulateStorePrices ==
    /\ pc = "pricing"
    /\ \E variation \in Variations, seasonal_adjustment \in SeasonalAdjustments :
          \E final_price \in RoundedPrices(ingredient, store, price_range,
                                           variation, seasonal_adjustment) :
              price_info' = [name     |-> ingredient.name,
                             category |-> ingredient.category,
                             store    |-> store,
                             price    |-> FloorPrice(final_price)]
    /\ pc' = "priced"
    /\ UNCHANGED <<ingredient, store, price_range, chat_vars, parallel_vars, recipe_vars,
                   all_prices, max_stores, budget, ingredient_names,
                   ingredient_options, current_combination, option_index, gen_pc,
                   all_combinations, examined, selected_items, used_stores, fb_index,
                   best_combination, result, call, first_result>>

NextPrices == SimulateStorePrices

SpecPrices == InitPrices /\ [][NextPrices]_vars

\* ------------------------------------------------------------------- C29
Priced == pc = "priced"

\* C29: every quote _simulate_store_prices returns, for any ingredient, any
\* store of the table, any pricing tier and any value of the random factors,
\* has a price of at least 0.50.
C29_PriceAtLeastMinimum ==
    Priced => price_info.price >= 50

\* A quote returned at 0.50 although no value of the random factors makes
\* its product round to 0.50: the floor raised it.
C29_Witness ==
    /\ Priced
    /\ price_info.price = 50
    /\ \A v \in Variations, sa \in SeasonalAdjustments :
          50 \notin RoundedPrices(ingredient, store, price_range, v, sa)

\* ======================================================== chat (774-787)
MaxChatCalls == 3

UserMessages == {"What goes into a pizza?", "And a cheaper store?"}
\* response.content of a successful call.
ModelReplies == {"Dough, sauce, cheese.", "Try Aldi."}
\* line 781.
Apology == "Sorry, I'm having trouble connecting to the AI model right now."

\* The calls made so far: one user message is appended per call (line 776).
ChatCalls ==
    Cardinality({i \in DOMAIN conversation_history : conversation_history[i].role = "user"})

InitChat ==
    /\ ChatIdle
    /\ pc = "idle"
    /\ NoCall /\ ParallelIdle /\ RecipeIdle /\ PriceIdle

\* lines 774-787 with _call_llm (71-88), which returns the message of the
\* first choice or, on any exception of the client, None.
Chat ==
    /\ pc = "idle"
    /\ ChatCalls < MaxChatCalls
    /\ \E user_message \in UserMessages, response \in {None} \cup {<<c>> : c \in ModelReplies} :
          LET history_1 == Append(conversation_history,
                                  [role |-> "user", content |-> user_message])
          IN  IF response = None
              THEN /\ conversation_history' = history_1
                   /\ chat_reply' = Apology
              ELSE /\ conversation_history' =
                         Append(history_1, [role |-> "assistant", content |-> response[1]])
                   /\ chat_reply' = response[1]
    /\ UNCHANGED <<pc, parallel_vars, recipe_vars, price_vars,
                   all_prices, max_stores, budget, ingredient_names,
                   ingredient_options, current_combination, option_index, gen_pc,
                   all_combinations, examined, selected_items, used_stores, fb_index,
                   best_combination, result, call, first_result>>

NextChat == Chat

SpecChat == InitChat /\ [][NextChat]_vars

\* ------------------------------------------------------------------- C30
\* C30: after any sequence of chat calls the conversation history alternates
\* user and assistant messages, starting with a user message and ending with
\* the assistant message of the last call, also when that call failed.
C30_HistoryAlternates ==
    /\ \A i \in DOMAIN conversation_history :
          conversation_history[i].role = IF i % 2 = 1 THEN "user" ELSE "assistant"
    /\ Len(conversation_history) % 2 = 0
====
